---- MODULE Spec2Model ----
(***************************************************************************)
(* Voice session engine of src/components/VoiceInteraction.tsx.            *)
(*                                                                         *)
(* The file holds several versions of the component.  The model follows    *)
(* the version of lines 220-684 ("v2": sessionPromiseRef, transcript       *)
(* accumulators, try/catch around the tool handlers, stop_assistant) and    *)
(* the version of lines 687-947 ("v3": sessionRef set after the await, no   *)
(* try/catch, no accumulators).  The variable `variant` says which one is   *)
(* mounted.                                                                 *)
(*                                                                         *)
(* Every invocation of startSession gets an index k; the locals of that     *)
(* invocation (inputCtx, outputCtx, stream, sessionPromise) are the         *)
(* resources of "session k".  The refs of the component are shared by all   *)
(* invocations and hold such an index, or Null.                             *)
(***************************************************************************)
EXTENDS Integers, Sequences, FiniteSets, TLC

\* ---------------------------------------------------------------- bounds
MaxStarts == 2
MaxTime == 2
MaxDur == 2
MaxChunks == 2
MaxCalls == 2
MaxTimers == 1
MaxAccLen == 2
MaxLog == 1
MaxCaptured == 2
GridSteps == 50
MaxFullLen == 1
MaxBytes == 4

\* ------------------------------------------------------------- constants
TranscriptCap == 10

Null == 0

PcmScale == 32768

Int16Modulus == 65536

Uint8Modulus == 256

Uint16Modulus == 65536

Resources == {"transport", "stream", "inCtx", "outCtx"}

Variants == {"v2", "v3"}

Sessions == 1..MaxStarts

\* ------------------------------------------------------- small utilities
Max(a, b) == IF a >= b THEN a ELSE b

Min(a, b) == IF a <= b THEN a ELSE b

RECURSIVE SumDur(_, _, _)
SumDur(s, i, j) == IF i >= j THEN 0 ELSE s[i].dur + SumDur(s, i + 1, j)

LastN(s, n) == IF Len(s) <= n THEN s ELSE SubSeq(s, Len(s) - n + 1, Len(s))

VARIABLES
  variant,          \* which version of the component is mounted
  apiKey,           \* process.env.API_KEY is set
  mounted,          \* the component is mounted
  shown,            \* what the button was last rendered as: "start" or "stop"
  isListening, status, error, needsKey,
  transcription,    \* the finalized log
  nStarts,          \* number of startSession invocations so far
  pc,               \* pc[k]: where invocation k of startSession stands
  acquired,         \* acquired[k]: the resources invocation k has created
  closeCalls,       \* closeCalls[k][r]: how many times r of k was closed/stopped
  transport,        \* transport[k]: state of the duplex channel of k
  promise,          \* promise[k]: state of sessionPromise of k
  thens,            \* thens[k]: callbacks queued on sessionPromise of k while pending
  capture,          \* capture[k]: onopen wired the script processor of k
  audioContextRef, inputAudioContextRef, streamRef, sessionPromiseRef, sessionRef,
  nextStartTimeRef,
  sourcesRef,       \* set of handles (indices into sched)
  sched,            \* every source.start() made so far, in call order
  now,              \* now[k]: currentTime of the output context of k
  pending,          \* onmessage handlers suspended at await decodeAudioData, FIFO
  currentInputTranscription, currentOutputTranscription,
  outbox,           \* tool results sent to the endpoint, in send order
  nCalls,           \* number of tool calls received so far (gives the ids)
  dispatched,       \* ids of the tool calls whose dispatch began on an open transport
  timers,           \* pending setTimeout(stopSession, 1500) timers
  arrivals,         \* number of audio messages received so far
  epoch,            \* length of sched at the last cursor reset or underrun clamp
  lastFlush,        \* length of sched when an interrupted event was last handled
  nChunks,          \* number of chunks the capture callbacks have produced so far
  uplink,           \* the chunks handed to sendRealtimeInput on an open transport
  codecIn,          \* the value given to a conversion
  codecOut,         \* what the conversion made of it
  last              \* the step taken last

uiVars == <<shown, isListening, status, error, needsKey, transcription>>

sessVars == <<nStarts, pc, acquired, closeCalls, transport, promise, thens, capture>>

refVars == <<audioContextRef, inputAudioContextRef, streamRef, sessionPromiseRef, sessionRef>>

playVars == <<nextStartTimeRef, sourcesRef, sched, pending, arrivals, epoch, lastFlush>>

textVars == <<currentInputTranscription, currentOutputTranscription>>

toolVars == <<outbox, nCalls, dispatched, timers>>

capVars == <<nChunks, uplink>>

codecVars == <<codecIn, codecOut>>

vars == <<variant, apiKey, mounted, uiVars, sessVars, refVars, playVars, now,
          textVars, toolVars, capVars, codecVars, last>>

\* The error state: null, or a message (useState<string | null>, line 240).
NoError == [isNull |-> TRUE, text |-> ""]

Message(t) == [isNull |-> FALSE, text |-> t]

\* No interrupted event has been handled yet.
NoFlush == -1

\* The status label each version shows while idle, connecting and active.
Standby == IF variant = "v2" THEN "Neural Link Standby" ELSE "Ready"

Connecting == IF variant = "v2" THEN "Synchronizing Neural Frequencies..." ELSE "Connecting..."

Synchronized == IF variant = "v2" THEN "V1 Synchronized" ELSE "Active"

\* The state after construction, but for the version, the key and the
\* conversion input.
InitRest ==
  /\ mounted = TRUE
  /\ shown = "start"
  /\ isListening = FALSE
  /\ status = Standby
  /\ error = NoError
  /\ needsKey = FALSE
  /\ transcription = <<>>
  /\ nStarts = 0
  /\ pc = [k \in Sessions |-> "none"]
  /\ acquired = [k \in Sessions |-> {}]
  /\ closeCalls = [k \in Sessions |-> [r \in Resources |-> 0]]
  /\ transport = [k \in Sessions |-> "none"]
  /\ promise = [k \in Sessions |-> "none"]
  /\ thens = [k \in Sessions |-> <<>>]
  /\ capture = [k \in Sessions |-> FALSE]
  /\ audioContextRef = Null
  /\ inputAudioContextRef = Null
  /\ streamRef = Null
  /\ sessionPromiseRef = Null
  /\ sessionRef = Null
  /\ nextStartTimeRef = 0
  /\ sourcesRef = {}
  /\ sched = <<>>
  /\ now = [k \in Sessions |-> 0]
  /\ pending = <<>>
  /\ currentInputTranscription = <<>>
  /\ currentOutputTranscription = <<>>
  /\ outbox = <<>>
  /\ nCalls = 0
  /\ dispatched = {}
  /\ timers = 0
  /\ arrivals = 0
  /\ epoch = 0
  /\ lastFlush = NoFlush
  /\ nChunks = 0
  /\ uplink = <<>>
  /\ last = [op |-> "init", k |-> Null]

Init ==
  /\ variant \in Variants
  /\ apiKey \in BOOLEAN
  /\ codecIn = <<>>
  /\ codecOut = <<>>
  /\ InitRest

\* ------------------------------------------------------------ teardown
\* s.stop() on every handle of the active set (lines 383, 508).
StopHandles(sc, set) ==
  [i \in DOMAIN sc |-> IF i \in set THEN [sc[i] EXCEPT !.state = "stopped"] ELSE sc[i]]

\* Fault: a resource is closed twice by one call of stopSession.
C10_DoubleCloseMutant(cc, k, r) == IF k = Null THEN cc ELSE [cc EXCEPT ![k][r] = @ + 2]

\* One more close()/stop() call on resource r of session k (k = Null: no call).
Bump(cc, k, r) == IF k = Null THEN cc ELSE [cc EXCEPT ![k][r] = @ + 1]

\* Fault: stopSession leaves the ref pointing at what it closed.
C9_StaleRefMutant(old) == old

\* What a ref holds after stopSession has closed what it pointed to.
RefAfterClose(old) == Null

\* s.close() on the transport of k.
CloseTransport(tr, k) ==
  IF k # Null /\ tr[k] \in {"connecting", "open"} THEN [tr EXCEPT ![k] = "closing"] ELSE tr

\* stopSession of v2, run on top of the transport state tr.
stopSessionV2(tr) ==
  LET p == sessionPromiseRef
      closeNow == p # Null /\ promise[p] = "resolved"
      cc1 == IF closeNow THEN Bump(closeCalls, p, "transport") ELSE closeCalls
      cc2 == Bump(cc1, streamRef, "stream")
      cc3 == Bump(cc2, inputAudioContextRef, "inCtx")
      cc4 == Bump(cc3, audioContextRef, "outCtx")
  IN /\ thens' = IF p # Null /\ promise[p] \in {"pending", "opened"}
                 THEN [thens EXCEPT ![p] = Append(@, [type |-> "close"])]
                 ELSE thens
     /\ transport' = IF closeNow THEN CloseTransport(tr, p) ELSE tr
     /\ closeCalls' = cc4
     /\ sessionPromiseRef' = IF p # Null THEN RefAfterClose(p) ELSE Null
     /\ streamRef' = IF streamRef # Null THEN RefAfterClose(streamRef) ELSE Null
     /\ inputAudioContextRef' =
          IF inputAudioContextRef # Null THEN RefAfterClose(inputAudioContextRef) ELSE Null
     /\ audioContextRef' =
          IF audioContextRef # Null THEN RefAfterClose(audioContextRef) ELSE Null
     /\ sched' = StopHandles(sched, sourcesRef)
     /\ sourcesRef' = {}
     /\ isListening' = FALSE
     /\ status' = Standby
     /\ nextStartTimeRef' = 0
     /\ epoch' = Len(sched)
     /\ UNCHANGED sessionRef

\* stopSession of v3, run on top of the transport state tr.
stopSessionV3(tr) ==
  LET cc1 == Bump(closeCalls, sessionRef, "transport")
      cc2 == Bump(cc1, streamRef, "stream")
      cc3 == Bump(cc2, inputAudioContextRef, "inCtx")
      cc4 == Bump(cc3, audioContextRef, "outCtx")
  IN /\ transport' = CloseTransport(tr, sessionRef)
     /\ closeCalls' = cc4
     /\ sessionRef' = IF sessionRef # Null THEN RefAfterClose(sessionRef) ELSE Null
     /\ streamRef' = IF streamRef # Null THEN RefAfterClose(streamRef) ELSE Null
     /\ inputAudioContextRef' =
          IF inputAudioContextRef # Null THEN RefAfterClose(inputAudioContextRef) ELSE Null
     /\ audioContextRef' =
          IF audioContextRef # Null THEN RefAfterClose(audioContextRef) ELSE Null
     /\ sched' = StopHandles(sched, sourcesRef)
     /\ sourcesRef' = {}
     /\ isListening' = FALSE
     /\ status' = Standby
     /\ UNCHANGED <<thens, sessionPromiseRef, nextStartTimeRef, epoch>>

stopSession(tr) == IF variant = "v2" THEN stopSessionV2(tr) ELSE stopSessionV3(tr)

\* What stopSession leaves alone.
stopFrame ==
  UNCHANGED <<capVars, codecVars, variant, apiKey, transcription, nStarts, pc, acquired, promise, capture,
              now, pending, arrivals, lastFlush, textVars, outbox, nCalls, dispatched>>

\* The button, rendered as "stop" (onClick = stopSession, lines 597, 916).
StopClick ==
  /\ mounted /\ shown = "stop"
  /\ variant = "v2" => ~needsKey
  /\ stopSession(transport)
  /\ last' = [op |-> "stop", k |-> Null, prev |-> last.op]
  /\ stopFrame
  /\ UNCHANGED <<mounted, shown, error, needsKey, timers>>

\* React renders the button from isListening some time after the state was set.
Render ==
  /\ mounted
  /\ shown # (IF isListening THEN "stop" ELSE "start")
  /\ shown' = (IF isListening THEN "stop" ELSE "start")
  /\ last' = [op |-> "render", k |-> Null]
  /\ UNCHANGED <<capVars, codecVars, variant, apiKey, mounted, isListening, status, error, needsKey,
                 transcription, sessVars, refVars, playVars, now, textVars, toolVars>>

\* The cleanup of the mount effect (lines 542-544); v3 has none.
Unmount ==
  /\ mounted
  /\ mounted' = FALSE
  /\ last' = [op |-> "unmount", k |-> Null, prev |-> last.op]
  /\ IF variant = "v2"
     THEN stopSession(transport) /\ stopFrame
     ELSE UNCHANGED <<variant, apiKey, isListening, status, transcription, sessVars,
                      refVars, playVars, now, textVars, outbox, nCalls, dispatched>>
  /\ UNCHANGED <<capVars, codecVars, shown, error, needsKey, timers>>

\* setTimeout(stopSession, 1500) fires (line 497).
TimerFire ==
  /\ timers > 0
  /\ timers' = timers - 1
  /\ stopSession(transport)
  /\ last' = [op |-> "timer", k |-> Null, prev |-> last.op]
  /\ stopFrame
  /\ UNCHANGED <<mounted, shown, error, needsKey>>

\* The message onerror reports (lines 518, 859).
TransportError == IF variant = "v2" THEN "Neural Link Compromised" ELSE "Connection lost"

\* callbacks.onerror of session k (lines 513-520, 858-861).  keyMsg: the message
\* names the API key.
OnError(k, keyMsg) ==
  /\ transport[k] \in {"connecting", "open"}
  /\ error' = Message(TransportError)
  /\ needsKey' = IF variant = "v2" /\ keyMsg THEN TRUE ELSE needsKey
  /\ stopSession([transport EXCEPT ![k] = "closing"])
  /\ last' = [op |-> "error", k |-> k, prev |-> last.op]
  /\ stopFrame
  /\ UNCHANGED <<mounted, shown, timers>>

\* callbacks.onclose of session k (lines 521-524, 862).
OnClose(k) ==
  /\ transport[k] \in {"connecting", "open", "closing"}
  /\ transport' = [transport EXCEPT ![k] = "closed"]
  /\ isListening' = FALSE
  /\ status' = IF variant = "v2" THEN "Neural Link Standby" ELSE "Disconnected"
  /\ last' = [op |-> "close", k |-> k, was |-> transport[k]]
  /\ UNCHANGED <<capVars, codecVars, variant, apiKey, mounted, shown, error, needsKey, transcription,
                 nStarts, pc, acquired, closeCalls, promise, thens, capture,
                 refVars, playVars, now, textVars, toolVars>>

\* handleLinkKey of v2 (lines 270-277), behind the buttons shown while needsKey
\* is set or the error names the key (lines 584, 675): after the platform's key
\* dialogue, which may or may not have provided a key, needsKey and the error
\* are cleared.
LinkKey ==
  /\ variant = "v2"
  /\ mounted /\ needsKey
  /\ apiKey' \in BOOLEAN
  /\ needsKey' = FALSE
  /\ error' = NoError
  /\ last' = [op |-> "linkKey", k |-> Null]
  /\ UNCHANGED <<variant, mounted, shown, isListening, status, transcription,
                 sessVars, refVars, playVars, now, textVars, toolVars, capVars,
                 codecVars>>

\* The Dismiss button of the error banner of v3 (line 939).
Dismiss ==
  /\ variant = "v3"
  /\ mounted /\ ~error.isNull
  /\ error' = NoError
  /\ last' = [op |-> "dismiss", k |-> Null]
  /\ UNCHANGED <<variant, apiKey, mounted, shown, isListening, status, needsKey,
                 transcription, sessVars, refVars, playVars, now, textVars, toolVars,
                 capVars, codecVars>>

\* --------------------------------------------------------------- startup
\* startSession of v2 up to its first await (lines 392-408).  lim bounds the
\* number of invocations.
StartSessionV2(lim) ==
  LET k == nStarts + 1 IN
  /\ variant = "v2"
  /\ mounted /\ shown = "start" /\ ~needsKey
  /\ nStarts < lim
  /\ error' = NoError
  /\ last' = [op |-> "start", k |-> k]
  /\ IF ~apiKey
     THEN /\ needsKey' = TRUE
          /\ UNCHANGED <<status, nStarts, pc, acquired>>
     ELSE /\ status' = Connecting
          /\ nStarts' = k
          /\ acquired' = [acquired EXCEPT ![k] = {"inCtx", "outCtx"}]
          /\ pc' = [pc EXCEPT ![k] = "resume"]
          /\ UNCHANGED needsKey
  /\ UNCHANGED <<capVars, codecVars, variant, apiKey, mounted, shown, isListening, transcription,
                 closeCalls, transport, promise, thens, capture,
                 refVars, playVars, now, textVars, toolVars>>

\* startSession of v3 up to its first await (lines 781-799): the refs are set
\* before the contexts are resumed.
StartSessionV3(lim) ==
  LET k == nStarts + 1 IN
  /\ variant = "v3"
  /\ mounted /\ shown = "start"
  /\ nStarts < lim
  /\ last' = [op |-> "start", k |-> k]
  /\ IF ~apiKey
     THEN /\ error' = Message("System API key is missing")
          /\ UNCHANGED <<status, nStarts, pc, acquired, inputAudioContextRef,
                         audioContextRef>>
     ELSE /\ error' = NoError
          /\ status' = Connecting
          /\ nStarts' = k
          /\ acquired' = [acquired EXCEPT ![k] = {"inCtx", "outCtx"}]
          /\ inputAudioContextRef' = k
          /\ audioContextRef' = k
          /\ pc' = [pc EXCEPT ![k] = "resume"]
  /\ UNCHANGED <<capVars, codecVars, variant, apiKey, mounted, shown, isListening, needsKey, transcription,
                 closeCalls, transport, promise, thens, capture,
                 streamRef, sessionPromiseRef, sessionRef,
                 playVars, now, textVars, toolVars>>

\* Both resume() calls have resolved; v2 now sets the context refs (lines
\* 408-414); both versions call getUserMedia (lines 414, 801).
ResumeDone(k) ==
  /\ pc[k] = "resume"
  /\ pc' = [pc EXCEPT ![k] = "gum"]
  /\ IF variant = "v2"
     THEN inputAudioContextRef' = k /\ audioContextRef' = k
     ELSE UNCHANGED <<inputAudioContextRef, audioContextRef>>
  /\ last' = [op |-> "resumed", k |-> k]
  /\ UNCHANGED <<capVars, codecVars, variant, apiKey, mounted, uiVars, nStarts, acquired, closeCalls,
                 transport, promise, thens, capture, streamRef, sessionPromiseRef,
                 sessionRef, playVars, now, textVars, toolVars>>

\* getUserMedia resolved: the stream ref is set and ai.live.connect is called
\* (lines 414-419, 535 and 801-804, 872).  v2 keeps the promise in
\* sessionPromiseRef and returns; v3 awaits it.
GumResolved(k) ==
  /\ pc[k] = "gum"
  /\ acquired' = [acquired EXCEPT ![k] = @ \cup {"stream", "transport"}]
  /\ streamRef' = k
  /\ transport' = [transport EXCEPT ![k] = "connecting"]
  /\ promise' = [promise EXCEPT ![k] = "pending"]
  /\ IF variant = "v2"
     THEN sessionPromiseRef' = k /\ pc' = [pc EXCEPT ![k] = "done"]
     ELSE UNCHANGED sessionPromiseRef /\ pc' = [pc EXCEPT ![k] = "conn"]
  /\ last' = [op |-> "connect", k |-> k]
  /\ UNCHANGED <<capVars, codecVars, variant, apiKey, mounted, uiVars, nStarts, closeCalls, thens, capture,
                 audioContextRef, inputAudioContextRef, sessionRef,
                 playVars, now, textVars, toolVars>>

\* Fault: the catch reports an empty message.
C17_EmptyMessageMutant == ""

\* The message the catch of startSession reports (lines 537, 874).
BootstrapError ==
  IF variant = "v2" THEN "Bootstrap Error" ELSE "Failed to access microphone"

\* Fault: the catch leaves the status label as it was.
C37_StuckMutant == Connecting

\* The status label the catch of startSession sets (lines 538, 875).
CatchStatus == Standby

\* getUserMedia rejected: the catch of startSession (lines 536-539, 873-876).
GumRejected(k) ==
  /\ pc[k] = "gum"
  /\ pc' = [pc EXCEPT ![k] = "done"]
  /\ error' = Message(BootstrapError)
  /\ status' = CatchStatus
  /\ last' = [op |-> "gumRejected", k |-> k]
  /\ UNCHANGED <<capVars, codecVars, variant, apiKey, mounted, shown, isListening, needsKey, transcription,
                 nStarts, acquired, closeCalls, transport, promise, thens, capture,
                 refVars, playVars, now, textVars, toolVars>>

\* callbacks.onopen of session k (lines 422-447, 807-821).  Creating the media
\* stream source throws on a closed input context, and then nothing is wired.
TransportOpen(k) ==
  /\ transport[k] = "connecting"
  /\ transport' = [transport EXCEPT ![k] = "open"]
  /\ promise' = [promise EXCEPT ![k] = "opened"]
  /\ status' = Synchronized
  /\ isListening' = TRUE
  /\ capture' = [capture EXCEPT ![k] = (closeCalls[k]["inCtx"] = 0)]
  /\ last' = [op |-> "open", k |-> k]
  /\ UNCHANGED <<capVars, codecVars, variant, apiKey, mounted, shown, error, needsKey, transcription,
                 nStarts, pc, acquired, closeCalls, thens,
                 refVars, playVars, now, textVars, toolVars>>

\* A frame (a tool result, an audio chunk) handed to the transport of k: it
\* goes out on an open channel and is discarded otherwise.
Deliver(tr, ob, k, frame) == IF tr[k] = "open" THEN Append(ob, frame) ELSE ob

\* The callbacks queued on sessionPromise run in order once it is resolved.
RECURSIVE Flush(_, _, _)
Flush(q, k, st) ==
  IF q = <<>> THEN st
  ELSE LET e == Head(q) IN
       Flush(Tail(q), k,
             IF e.type = "close"
             THEN [st EXCEPT !.tr = CloseTransport(st.tr, k),
                             !.cc = Bump(st.cc, k, "transport")]
             ELSE IF e.type = "chunk"
             THEN [st EXCEPT !.up = Deliver(st.tr, st.up, k, e.frame)]
             ELSE [st EXCEPT !.ob = Deliver(st.tr, st.ob, k, e.frame)])

\* ai.live.connect of session k resolves, after onopen (lines 419, 872): the
\* queued callbacks run; v3 resumes and sets sessionRef.
ConnectResolved(k) ==
  LET st == Flush(thens[k], k, [tr |-> transport, cc |-> closeCalls, ob |-> outbox,
                                up |-> uplink])
  IN
  /\ promise[k] = "opened"
  /\ promise' = [promise EXCEPT ![k] = "resolved"]
  /\ thens' = [thens EXCEPT ![k] = <<>>]
  /\ transport' = st.tr
  /\ closeCalls' = st.cc
  /\ outbox' = st.ob
  /\ uplink' = st.up
  /\ UNCHANGED <<nChunks, codecVars>>
  /\ IF variant = "v3"
     THEN sessionRef' = k /\ pc' = [pc EXCEPT ![k] = "done"]
     ELSE UNCHANGED <<sessionRef, pc>>
  /\ last' = [op |-> "resolved", k |-> k]
  /\ UNCHANGED <<variant, apiKey, mounted, uiVars, nStarts, acquired, capture,
                 audioContextRef, inputAudioContextRef, streamRef, sessionPromiseRef,
                 playVars, now, textVars, nCalls, dispatched, timers>>

\* Fault: the capture callback is wired as soon as the stream exists.
C12_EarlyCaptureMutant(k) == "stream" \in acquired[k] /\ closeCalls[k]["inCtx"] = 0

\* The script processor of session k fires: onopen has wired it (lines 426-446,
\* 811-820) and its input context has not been closed.
CaptureRuns(k) == capture[k] /\ closeCalls[k]["inCtx"] = 0

\* Fault: a callback jumps the queue of the session promise.
C20_JumpQueueMutant(q, e) == <<e>> \o q

\* sessionPromise.then(cb) on a promise that has not resolved.
Enqueue(q, e) == Append(q, e)

\* processor.onaudioprocess of session k (lines 429-443, 812-817): one chunk is
\* encoded and handed to sessionPromise.then(s => s.sendRealtimeInput(...)),
\* which runs at once on a resolved promise and is queued otherwise; a send
\* on a transport that is not open fails and is swallowed by .catch.
OnAudioProcess(k) ==
  LET frame == [k |-> k, n |-> nChunks + 1, queued |-> promise[k] # "resolved",
                sentIn |-> transport[k]]
  IN
  /\ CaptureRuns(k)
  /\ nChunks < MaxCaptured
  /\ nChunks' = nChunks + 1
  /\ IF promise[k] = "resolved"
     THEN /\ uplink' = Deliver(transport, uplink, k, frame)
          /\ UNCHANGED thens
     ELSE /\ thens' = [thens EXCEPT ![k] = Enqueue(@, [type |-> "chunk", frame |-> frame])]
          /\ UNCHANGED uplink
  /\ last' = [op |-> "audio", k |-> k, n |-> nChunks + 1, state |-> transport[k],
              promise |-> promise[k]]
  /\ UNCHANGED <<variant, apiKey, mounted, uiVars, nStarts, pc, acquired, closeCalls,
                 transport, promise, capture, refVars, playVars, now, textVars,
                 toolVars, codecVars>>

\* The clock of the output context of k advances while the context is open.
Tick(k) ==
  /\ "outCtx" \in acquired[k] /\ closeCalls[k]["outCtx"] = 0
  /\ now[k] < MaxTime
  /\ now' = [now EXCEPT ![k] = @ + 1]
  /\ last' = [op |-> "tick", k |-> k]
  /\ UNCHANGED <<capVars, codecVars, variant, apiKey, mounted, uiVars, sessVars, refVars, playVars,
                 textVars, toolVars>>

\* ------------------------------------------------------ inbound messages
\* The names of the tool vocabulary (spec section 6), the names each version
\* routes to a host handler, and a name outside the vocabulary.
ToolVocabulary ==
  {"add_note", "add_task", "send_message", "get_notifications",
   "control_multimedia", "get_current_time", "open_website", "stop_assistant"}

HandledV2 ==
  {"get_current_time", "open_website", "add_note", "add_task", "control_multimedia"}

HandledV3 == {"add_note", "add_task", "send_message", "get_notifications"}

UnknownTool == "fly_to_moon"

NoText == [present |-> FALSE, text |-> <<>>]

Text(t) == [present |-> TRUE, text |-> t]

IsSpace(c) == c = " "

\* Fault: the accumulators are not trimmed.
C7_TrimMutant(t) == t

\* String.prototype.trim on a sequence of characters.
RECURSIVE TrimLeft(_)
TrimLeft(t) == IF t # <<>> /\ IsSpace(Head(t)) THEN TrimLeft(Tail(t)) ELSE t

RECURSIVE TrimRight(_)
TrimRight(t) ==
  IF t # <<>> /\ IsSpace(t[Len(t)]) THEN TrimRight(SubSeq(t, 1, Len(t) - 1)) ELSE t

Trim(t) == TrimRight(TrimLeft(t))

\* Fault: the clamp takes the smaller of the cursor and the clock.
C2_ClampMutant(ns, t) == Min(ns, t)

\* Fault: no clamp.
C3_ClampMutant(ns, t) == ns

\* Math.max(nextStartTimeRef.current, ctx.currentTime) (lines 453, 839).
Clamp(ns, t) == Max(ns, t)

\* Fault: the cursor does not advance.
C1_AdvanceMutant(ns, d) == ns

\* Fault: the cursor moves back by the duration.
C21_RewindMutant(ns, d) == ns - d

\* nextStartTimeRef.current += buffer.duration (lines 460, 845).
Advance(ns, d) == ns + d

\* The handler's working state: what the rest of an onmessage call reads and
\* writes, threaded through its branches in source order.
Work ==
  [in |-> currentInputTranscription, out |-> currentOutputTranscription,
   log |-> transcription, ob |-> outbox, th |-> thens, nc |-> nCalls,
   disp |-> dispatched, tm |-> timers, sc |-> sched, src |-> sourcesRef,
   ns |-> nextStartTimeRef, ep |-> epoch, lf |-> lastFlush, pd |-> pending,
   thrown |-> FALSE, fl |-> 0]

\* The handler h resumes after its await: source.start(nextStartTimeRef.current);
\* the cursor advances; the handle joins the active set (lines 455-461, 841-847).
Schedule(st, h) ==
  [st EXCEPT !.sc = Append(st.sc, [start |-> st.ns, dur |-> h.m.audio.dur, seq |-> h.seq,
                                   epoch |-> st.ep, ctx |-> h.ctx, state |-> "scheduled",
                                   waiting |-> Len(pending), flushLen |-> st.lf]),
             !.pd = Tail(st.pd),
             !.ns = Advance(st.ns, h.m.audio.dur),
             !.src = st.src \cup {Len(st.sc) + 1}]

\* Fault: the fragment is put in front of the accumulated text.
C28_PrependMutant(acc, t) == t \o acc

\* accumulator += text (lines 466, 468).
Concat(acc, t) == acc \o t

\* Lines 464-469: the fragment goes to one accumulator, output first.
TranscriptsV2(st, m) ==
  IF m.outT.present THEN [st EXCEPT !.out = Concat(st.out, m.outT.text)]
  ELSE IF m.inT.present THEN [st EXCEPT !.in = Concat(st.in, m.inT.text)]
  ELSE st

\* Fault: the assistant's record is emitted before the user's.
C25_SwapMutant(uText, aText) ==
  (IF aText # <<>> THEN <<[type |-> "v1", text |-> aText]>> ELSE <<>>)
  \o (IF uText # <<>> THEN <<[type |-> "user", text |-> uText]>> ELSE <<>>)

\* The records a turn emits (lines 477-478).
Records(uText, aText) ==
  (IF uText # <<>> THEN <<[type |-> "user", text |-> uText]>> ELSE <<>>)
  \o (IF aText # <<>> THEN <<[type |-> "v1", text |-> aText]>> ELSE <<>>)

\* Fault: the accumulator keeps its text at the end of the turn.
C26_KeepMutant(acc) == acc

\* accumulator = '' (lines 481-482).
Cleared(acc) == <<>>

\* Lines 471-483.
TurnCompleteV2(st, m) ==
  IF ~m.turnComplete THEN st
  ELSE LET uText == Trim(st.in)
           aText == Trim(st.out)
           recs == Records(uText, aText)
       IN [st EXCEPT !.log = IF uText # <<>> \/ aText # <<>>
                             THEN LastN(st.log \o recs, TranscriptCap)
                             ELSE st.log,
                     !.in = Cleared(st.in),
                     !.out = Cleared(st.out)]

\* sessionPromise.then(s => s.sendToolResponse(...)) (lines 501-503, 831-833):
\* sent at once when the promise is resolved, queued on it otherwise.
SendResult(st, k, frame) ==
  IF promise[k] = "resolved"
  THEN [st EXCEPT !.ob = Deliver(transport, st.ob, k, frame)]
  ELSE [st EXCEPT !.th = [st.th EXCEPT ![k] = Append(@, [type |-> "send", frame |-> frame])]]

\* The response of v2 to one call (lines 488-499).
ResponseV2(c) ==
  IF c.name \in HandledV2
  THEN IF c.throws THEN "Handled Exception" ELSE "handler result"
  ELSE IF c.name = "stop_assistant" THEN "V1 signing off. Neural link terminated."
  ELSE "Success"

\* Fault: stop_assistant arms no timer.
C30_NoTimerMutant(tm) == tm

\* setTimeout(stopSession, 1500) (line 497): one more timer is pending.
Arm(tm) == tm + 1

\* The loop over message.toolCall.functionCalls of v2 (lines 486-505).
RECURSIVE ToolCallsV2(_, _, _)
ToolCallsV2(st, k, calls) ==
  IF calls = <<>> THEN st
  ELSE LET c == Head(calls)
           id == st.nc + 1
           st1 == [st EXCEPT !.nc = id,
                             !.disp = IF transport[k] = "open" THEN @ \cup {id} ELSE @,
                             !.tm = IF c.name = "stop_assistant" THEN Arm(@) ELSE @]
       IN ToolCallsV2(SendResult(st1, k, [id |-> id, name |-> c.name,
                                          result |-> ResponseV2(c)]),
                      k, Tail(calls))

\* The response of v3 to one call that did not throw (lines 825-829).
ResponseV3(c) == IF c.name \in HandledV3 THEN "handler result" ELSE "Action failed"

\* The loop of v3 (lines 823-835): a handler that throws ends the whole
\* onmessage call, before the result of its call is sent.
RECURSIVE ToolCallsV3(_, _, _)
ToolCallsV3(st, k, calls) ==
  IF calls = <<>> THEN st
  ELSE LET c == Head(calls)
           id == st.nc + 1
           st1 == [st EXCEPT !.nc = id,
                             !.disp = IF transport[k] = "open" THEN @ \cup {id} ELSE @]
       IN IF c.name \in HandledV3 /\ c.throws
          THEN [st1 EXCEPT !.thrown = TRUE]
          ELSE ToolCallsV3(SendResult(st1, k, [id |-> id, name |-> c.name,
                                               result |-> ResponseV3(c)]),
                           k, Tail(calls))

\* Lines 850-851: each fragment is a log entry of its own.
TranscriptsV3(st, m) ==
  LET l1 == IF m.outT.present
            THEN Append(LastN(st.log, TranscriptCap), [type |-> "v1", text |-> m.outT.text])
            ELSE st.log
      l2 == IF m.inT.present
            THEN Append(LastN(l1, TranscriptCap), [type |-> "user", text |-> m.inT.text])
            ELSE l1
  IN [st EXCEPT !.log = l2]

\* Fault: the active set is not cleared.
C4_KeepMutant(set) == set

\* The active set after the flush (lines 509, 854).
SetAfterFlush(set) == {}

\* Lines 507-511, 852-856.
Interrupted(st, m) ==
  IF ~m.interrupted THEN st
  ELSE [st EXCEPT !.sc = StopHandles(st.sc, st.src),
                  !.src = SetAfterFlush(st.src),
                  !.ns = 0,
                  !.ep = Len(st.sc),
                  !.lf = Len(st.sc),
                  !.pd = [i \in DOMAIN st.pd |-> [st.pd[i] EXCEPT !.stale = TRUE]],
                  !.fl = Cardinality(st.src)]

\* What follows the audio branch in v2 (lines 464-511).
RestV2(st, k, m) ==
  Interrupted(ToolCallsV2(TurnCompleteV2(TranscriptsV2(st, m), m), k, m.calls), m)

\* What follows the audio branch in v3 (lines 850-856).
RestV3(st, m) == Interrupted(TranscriptsV3(st, m), m)

\* The handler's working state becomes the state.
Commit(st) ==
  /\ currentInputTranscription' = st.in
  /\ currentOutputTranscription' = st.out
  /\ transcription' = st.log
  /\ outbox' = st.ob
  /\ thens' = st.th
  /\ nCalls' = st.nc
  /\ dispatched' = st.disp
  /\ timers' = st.tm
  /\ sched' = st.sc
  /\ sourcesRef' = st.src
  /\ nextStartTimeRef' = st.ns
  /\ epoch' = st.ep
  /\ lastFlush' = st.lf
  /\ pending' = st.pd

msgFrame ==
  UNCHANGED <<capVars, codecVars, variant, apiKey, mounted, shown, isListening, status, error, needsKey,
              nStarts, pc, acquired, closeCalls, transport, promise, capture,
              refVars, now>>

\* The bounds on what one more message may add.
Fits(m) ==
  /\ m.audio.kind = "pcm" => Len(sched) + Len(pending) < MaxChunks
  /\ nCalls + Len(m.calls) <= MaxCalls
  /\ timers + Cardinality({i \in DOMAIN m.calls : m.calls[i].name = "stop_assistant"})
       <= MaxTimers
  /\ m.outT.present => Len(currentOutputTranscription) + Len(m.outT.text) <= MaxAccLen
  /\ m.inT.present => Len(currentInputTranscription) + Len(m.inT.text) <= MaxAccLen
  /\ (m.turnComplete \/ (variant = "v3" /\ (m.outT.present \/ m.inT.present)))
       => Len(transcription) < MaxLog

\* callbacks.onmessage of session k in v2, up to await decodeAudioData or, with
\* no audio to play, to its end (lines 448-512), whatever the size of the
\* message.
MessageV2(k, m) ==
  /\ variant = "v2"
  /\ transport[k] = "open"
  /\ msgFrame
  /\ IF m.audio.kind # "none" /\ audioContextRef # Null
     THEN LET ctx == audioContextRef
              ns == Clamp(nextStartTimeRef, now[ctx])
          IN /\ nextStartTimeRef' = ns
             /\ epoch' = IF ns # nextStartTimeRef THEN Len(sched) ELSE epoch
             /\ IF m.audio.kind = "bad"
                THEN /\ UNCHANGED <<pending, arrivals>>
                     /\ last' = [op |-> "message", k |-> k, m |-> m, thrown |-> TRUE,
                                 flushed |-> 0]
                ELSE /\ pending' = Append(pending, [k |-> k, m |-> m, ctx |-> ctx,
                                                    seq |-> arrivals + 1,
                                                    at |-> now[ctx], stale |-> FALSE])
                     /\ arrivals' = arrivals + 1
                     /\ last' = [op |-> "decode", k |-> k, m |-> m, thrown |-> FALSE,
                                 flushed |-> 0]
             /\ UNCHANGED <<sourcesRef, sched, lastFlush, textVars, transcription, toolVars,
                            thens>>
     ELSE LET st == RestV2(Work, k, m)
          IN /\ Commit(st)
             /\ UNCHANGED arrivals
             /\ last' = [op |-> "message", k |-> k, m |-> m, thrown |-> FALSE,
                         flushed |-> st.fl]

\* onmessage within the bounds.
OnMessageV2(k, m) == Fits(m) /\ MessageV2(k, m)

\* The handler at the head of the queue resumes after the await and runs to
\* its end (v2, lines 455-512).
ResumeV2 ==
  /\ variant = "v2"
  /\ pending # <<>>
  /\ LET h == Head(pending)
         st == RestV2(Schedule(Work, h), h.k, h.m)
     IN
     /\ Commit(st)
     /\ last' = [op |-> "message", k |-> h.k, m |-> h.m, thrown |-> FALSE,
                 flushed |-> st.fl]
  /\ UNCHANGED arrivals
  /\ msgFrame

\* callbacks.onmessage of session k in v3, up to await decodeAudioData or to
\* its end (lines 822-857).  The clock read is the one of the session's own
\* output context.
MessageV3(k, m) ==
  LET st1 == ToolCallsV3(Work, k, m.calls) IN
  /\ variant = "v3"
  /\ transport[k] = "open"
  /\ msgFrame
  /\ IF st1.thrown
     THEN /\ Commit(st1)
          /\ UNCHANGED arrivals
          /\ last' = [op |-> "message", k |-> k, m |-> m, thrown |-> TRUE,
                      flushed |-> 0]
     ELSE IF m.audio.kind # "none"
     THEN LET ns == Clamp(nextStartTimeRef, now[k])
              st2 == [st1 EXCEPT !.ns = ns,
                                 !.ep = IF ns # nextStartTimeRef THEN Len(sched) ELSE @]
          IN IF m.audio.kind = "bad"
             THEN /\ Commit(st2)
                  /\ UNCHANGED arrivals
                  /\ last' = [op |-> "message", k |-> k, m |-> m, thrown |-> TRUE,
                              flushed |-> 0]
             ELSE /\ Commit([st2 EXCEPT !.pd = Append(@, [k |-> k, m |-> m, ctx |-> k,
                                                          seq |-> arrivals + 1,
                                                          at |-> now[k],
                                                          stale |-> FALSE])])
                  /\ arrivals' = arrivals + 1
                  /\ last' = [op |-> "decode", k |-> k, m |-> m, thrown |-> FALSE,
                              flushed |-> 0]
     ELSE LET st == RestV3(st1, m)
          IN /\ Commit(st)
             /\ UNCHANGED arrivals
             /\ last' = [op |-> "message", k |-> k, m |-> m, thrown |-> FALSE,
                         flushed |-> st.fl]

\* onmessage within the bounds.
OnMessageV3(k, m) == Fits(m) /\ MessageV3(k, m)

\* A turn of at most one fragment per speaker: a fragment comes to an empty
\* accumulator.  The log is bounded by the code alone.
FitsLog(m) ==
  /\ m.inT.present => currentInputTranscription = <<>>
  /\ m.outT.present => currentOutputTranscription = <<>>

\* onmessage in long conversations.
LogMessageV2(k, m) == FitsLog(m) /\ MessageV2(k, m)

LogMessageV3(k, m) == FitsLog(m) /\ MessageV3(k, m)

\* The handler at the head of the queue resumes after the await (v3, lines
\* 841-856).
ResumeV3 ==
  /\ variant = "v3"
  /\ pending # <<>>
  /\ LET h == Head(pending)
         st == RestV3(Schedule(Work, h), h.m)
     IN
     /\ Commit(st)
     /\ last' = [op |-> "message", k |-> h.k, m |-> h.m, thrown |-> FALSE,
                 flushed |-> st.fl]
  /\ UNCHANGED arrivals
  /\ msgFrame

\* Fault: a handle that ended stays in the active set.
C24_LeakMutant(set, h) == set

\* sourcesRef.current.delete(source) (lines 458, 847).
Forget(set, h) == set \ {h}

\* source.onended of handle h: playback reached the end of the buffer (lines
\* 458, 847).
OnEnded(h) ==
  /\ h \in DOMAIN sched
  /\ sched[h].state = "scheduled"
  /\ now[sched[h].ctx] >= sched[h].start + sched[h].dur
  /\ sched' = [sched EXCEPT ![h].state = "ended"]
  /\ sourcesRef' = Forget(sourcesRef, h)
  /\ last' = [op |-> "ended", k |-> sched[h].ctx]
  /\ UNCHANGED <<capVars, codecVars, variant, apiKey, mounted, uiVars, sessVars, refVars,
                 nextStartTimeRef, pending, arrivals, epoch, lastFlush, now, textVars,
                 toolVars>>

\* ----------------------------------------------------------------- inputs
NoAudio == [kind |-> "none", dur |-> 0]

BadAudio == [kind |-> "bad", dur |-> 0]

Pcm(d) == [kind |-> "pcm", dur |-> d]

Msg(a, o, i, tc, cs, intr) ==
  [audio |-> a, outT |-> o, inT |-> i, turnComplete |-> tc, calls |-> cs,
   interrupted |-> intr]

\* audio_output and interrupted events
AudioMsgs ==
  {Msg(a, NoText, NoText, FALSE, <<>>, i) :
     a \in {NoAudio} \cup {Pcm(d) : d \in 1..MaxDur}, i \in BOOLEAN}
  \ {Msg(NoAudio, NoText, NoText, FALSE, <<>>, FALSE)}

\* tool_call events: one or two calls per message; a call may make its
\* handler throw when the name is one a version routes to a handler
ToolNames == {"add_note", "get_current_time", "send_message", "stop_assistant", UnknownTool}

Calls ==
  {[name |-> n, throws |-> t] :
     n \in ToolNames, t \in BOOLEAN} \ {[name |-> n, throws |-> TRUE] :
                                          n \in ToolNames \ (HandledV2 \cup HandledV3)}

CallSeqs == {<<c>> : c \in Calls} \cup {<<c, d>> : c \in Calls, d \in Calls}

ToolMsgs == {Msg(NoAudio, NoText, NoText, FALSE, cs, FALSE) : cs \in CallSeqs}

\* partial_transcript and turn_complete events: a fragment is one character,
\* a blank or a letter, and an event is tagged with one speaker
Fragments == {<<" ">>, <<"a">>}

TranscriptMsgs ==
  {Msg(NoAudio, o, i, tc, <<>>, FALSE) :
     o \in {NoText} \cup {Text(f) : f \in Fragments},
     i \in {NoText} \cup {Text(f) : f \in Fragments},
     tc \in BOOLEAN}
  \ ({Msg(NoAudio, NoText, NoText, FALSE, <<>>, FALSE)}
     \cup {Msg(NoAudio, Text(f), Text(g), tc, <<>>, FALSE) :
             f \in Fragments, g \in Fragments, tc \in BOOLEAN})

\* partial_transcript and turn_complete events of long conversations: every
\* fragment is the same letter
LogMsgs ==
  {Msg(NoAudio, o, i, tc, <<>>, FALSE) :
     o \in {NoText, Text(<<"a">>)}, i \in {NoText, Text(<<"a">>)}, tc \in BOOLEAN}
  \ {Msg(NoAudio, NoText, NoText, FALSE, <<>>, FALSE),
     Msg(NoAudio, Text(<<"a">>), Text(<<"a">>), FALSE, <<>>, FALSE),
     Msg(NoAudio, Text(<<"a">>), Text(<<"a">>), TRUE, <<>>, FALSE)}

\* a tool_call event that asks for stop_assistant
StopMsgs ==
  {Msg(NoAudio, NoText, NoText, FALSE, <<[name |-> "stop_assistant", throws |-> FALSE]>>,
       FALSE)}

\* ------------------------------------------------------------ conversions
Abs(x) == IF x < 0 THEN -x ELSE x

\* The integer part of a / b (b > 0), rounding toward zero, as the conversion of
\* a Number to an integer does.
TruncDiv(a, b) == IF a < 0 THEN -((-a) \div b) ELSE a \div b

\* Storing an integer in an Int16Array element: modulo 2^16, read as signed.
ToInt16(x) ==
  LET m == x % Int16Modulus IN IF m >= Int16Modulus \div 2 THEN m - Int16Modulus ELSE m

\* int16[i] = inputData[i] * 32768 (lines 435-436) for the sample n / GridSteps.
FloatToPcm16(n) == ToInt16(TruncDiv(n * PcmScale, GridSteps))

\* The samples of the grid: n stands for n / GridSteps, from -1 to 1.
SampleGrid == (-GridSteps)..GridSteps

\* String.fromCharCode(x): the code unit x modulo 2^16 (lines 284, 732).
FromCharCode(x) == x % Uint16Modulus

\* Fault: the code unit is cut to seven bits.
C19_SevenBitMutant(c) == c % 128

\* bytes[i] = binaryString.charCodeAt(i): the code unit stored in a Uint8Array
\* element, modulo 2^8 (lines 294, 726).
ToUint8(c) == c % Uint8Modulus

\* The padding character of base64; the other characters are modelled by their
\* index 0..63 in the alphabet.
Pad == 64

\* btoa on a string of code units below 256: three characters become four
\* sextets; one or two left over are padded.
RECURSIVE Btoa(_)
Btoa(b) ==
  IF Len(b) = 0 THEN <<>>
  ELSE IF Len(b) = 1
  THEN <<b[1] \div 4, (b[1] % 4) * 16, Pad, Pad>>
  ELSE IF Len(b) = 2
  THEN <<b[1] \div 4, (b[1] % 4) * 16 + b[2] \div 16, (b[2] % 16) * 4, Pad>>
  ELSE <<b[1] \div 4, (b[1] % 4) * 16 + b[2] \div 16, (b[2] % 16) * 4 + b[3] \div 64,
         b[3] % 64>> \o Btoa(SubSeq(b, 4, Len(b)))

\* atob on a padded base64 text: four sextets become up to three characters.
RECURSIVE Atob(_)
Atob(t) ==
  IF Len(t) < 4 THEN <<>>
  ELSE LET c1 == t[1]
           c2 == t[2]
           c3 == t[3]
           c4 == t[4]
           rest == Atob(SubSeq(t, 5, Len(t)))
       IN IF c3 = Pad THEN <<c1 * 4 + c2 \div 16>>
          ELSE IF c4 = Pad THEN <<c1 * 4 + c2 \div 16, (c2 % 16) * 16 + c3 \div 4>>
          ELSE <<c1 * 4 + c2 \div 16, (c2 % 16) * 16 + c3 \div 4, (c3 % 4) * 64 + c4>>
               \o rest

\* encode (lines 279-286, 730-734).
encode(bytes) == Btoa([i \in 1..Len(bytes) |-> FromCharCode(bytes[i])])

\* decode (lines 288-297, 723-728).
decode(base64) ==
  LET binaryString == Atob(base64) IN
  [i \in 1..Len(binaryString) |-> ToUint8(binaryString[i])]

\* The byte values taken in the longer sequences.
EdgeBytes == {0, 1, 63, 128, 255}

\* The byte sequences given to encode: every sequence of up to MaxFullLen
\* bytes, and the sequences of up to MaxBytes bytes over EdgeBytes.
ByteSeqs ==
  UNION {[1..n -> 0..(Uint8Modulus - 1)] : n \in 0..MaxFullLen}
    \cup UNION {[1..n -> EdgeBytes] : n \in 0..MaxBytes}

\* What the conversion steps leave alone.
codecFrame ==
  UNCHANGED <<variant, apiKey, mounted, uiVars, sessVars, refVars, playVars, now,
              textVars, toolVars, capVars, codecIn>>

\* One captured sample goes through lines 435-436, and the resulting Int16
\* through the division of decodeAudioData (line 312).
ConvertSample ==
  /\ last.op = "init"
  /\ codecOut' = [pcm |-> FloatToPcm16(codecIn)]
  /\ last' = [op |-> "pcm", k |-> Null]
  /\ codecFrame

\* A byte sequence goes through encode and the text through decode.
RoundTripBytes ==
  /\ last.op = "init"
  /\ codecOut' = [text |-> encode(codecIn), bytes |-> decode(encode(codecIn))]
  /\ last' = [op |-> "base64", k |-> Null]
  /\ codecFrame

\* ------------------------------------------------------- specifications
\* Playback scheduling in v2: one session, audio_output and interrupted
\* events, handlers suspended in decoding, the device clock, playback ends.
NextAudio ==
  \/ StartSessionV2(1)
  \/ \E k \in Sessions : ResumeDone(k)
  \/ \E k \in Sessions : GumResolved(k)
  \/ \E k \in Sessions : TransportOpen(k)
  \/ \E k \in Sessions : ConnectResolved(k)
  \/ \E k \in Sessions, m \in AudioMsgs : OnMessageV2(k, m)
  \/ ResumeV2
  \/ \E h \in 1..MaxChunks : OnEnded(h)
  \/ \E k \in Sessions : Tick(k)

SpecAudio == Init /\ [][NextAudio]_vars

\* Tool dispatch in v2 and v3: one session, tool_call events, the
\* stop_assistant timer.
NextTools ==
  \/ StartSessionV2(1)
  \/ StartSessionV3(1)
  \/ \E k \in Sessions : ResumeDone(k)
  \/ \E k \in Sessions : GumResolved(k)
  \/ \E k \in Sessions : TransportOpen(k)
  \/ \E k \in Sessions : ConnectResolved(k)
  \/ \E k \in Sessions, m \in ToolMsgs : OnMessageV2(k, m)
  \/ \E k \in Sessions, m \in ToolMsgs : OnMessageV3(k, m)
  \/ TimerFire

SpecTools == Init /\ [][NextTools]_vars

\* Transcript aggregation in v2: one session, partial_transcript and
\* turn_complete events.
NextTranscript ==
  \/ StartSessionV2(1)
  \/ \E k \in Sessions : ResumeDone(k)
  \/ \E k \in Sessions : GumResolved(k)
  \/ \E k \in Sessions : TransportOpen(k)
  \/ \E k \in Sessions : ConnectResolved(k)
  \/ \E k \in Sessions, m \in TranscriptMsgs : OnMessageV2(k, m)

SpecTranscript == Init /\ [][NextTranscript]_vars

\* The lifecycle in v2 and v3: repeated starts, device and transport
\* failures, and every trigger of stopSession (the button, onerror, the
\* stop_assistant timer, unmount).
NextLifecycle ==
  \/ StartSessionV2(MaxStarts)
  \/ StartSessionV3(MaxStarts)
  \/ \E k \in Sessions : ResumeDone(k)
  \/ \E k \in Sessions : GumResolved(k)
  \/ \E k \in Sessions : GumRejected(k)
  \/ \E k \in Sessions : TransportOpen(k)
  \/ \E k \in Sessions : ConnectResolved(k)
  \/ \E k \in Sessions, m \in StopMsgs : OnMessageV2(k, m)
  \/ \E k \in Sessions, b \in BOOLEAN : OnError(k, b)
  \/ \E k \in Sessions : OnClose(k)
  \/ StopClick
  \/ Render
  \/ Unmount
  \/ TimerFire

SpecLifecycle == Init /\ [][NextLifecycle]_vars

\* One startSession invocation of v2 or v3 and every trigger of stopSession
\* racing on it.
NextTeardown ==
  \/ StartSessionV2(1)
  \/ StartSessionV3(1)
  \/ \E k \in Sessions : ResumeDone(k)
  \/ \E k \in Sessions : GumResolved(k)
  \/ \E k \in Sessions : GumRejected(k)
  \/ \E k \in Sessions : TransportOpen(k)
  \/ \E k \in Sessions : ConnectResolved(k)
  \/ \E k \in Sessions, m \in StopMsgs : OnMessageV2(k, m)
  \/ \E k \in Sessions, b \in BOOLEAN : OnError(k, b)
  \/ \E k \in Sessions : OnClose(k)
  \/ StopClick
  \/ Render
  \/ Unmount
  \/ TimerFire
  \/ LinkKey
  \/ Dismiss

SpecTeardown == Init /\ [][NextTeardown]_vars

\* Capture and upload in v2 and v3: one startSession invocation, the script
\* processor, and every way out of the active state.
NextCapture ==
  \/ StartSessionV2(1)
  \/ StartSessionV3(1)
  \/ \E k \in Sessions : ResumeDone(k)
  \/ \E k \in Sessions : GumResolved(k)
  \/ \E k \in Sessions : TransportOpen(k)
  \/ \E k \in Sessions : ConnectResolved(k)
  \/ \E k \in Sessions : OnAudioProcess(k)
  \/ \E k \in Sessions, m \in StopMsgs : OnMessageV2(k, m)
  \/ \E k \in Sessions, b \in BOOLEAN : OnError(k, b)
  \/ \E k \in Sessions : OnClose(k)
  \/ StopClick
  \/ Render
  \/ Unmount
  \/ TimerFire

SpecCapture == Init /\ [][NextCapture]_vars

\* The finalized log in long conversations, v2 and v3: one session and as
\* many partial_transcript and turn_complete events as it takes to fill the
\* log.
NextLog ==
  \/ StartSessionV2(1)
  \/ StartSessionV3(1)
  \/ \E k \in Sessions : ResumeDone(k)
  \/ \E k \in Sessions : GumResolved(k)
  \/ \E k \in Sessions : TransportOpen(k)
  \/ \E k \in Sessions : ConnectResolved(k)
  \/ \E k \in Sessions, m \in LogMsgs : LogMessageV2(k, m)
  \/ \E k \in Sessions, m \in LogMsgs : LogMessageV3(k, m)

SpecLog == Init /\ [][NextLog]_vars

\* The sample conversion on its own, over the samples of the grid.
InitPcm ==
  /\ variant = "v2"
  /\ apiKey = TRUE
  /\ codecIn \in SampleGrid
  /\ codecOut = <<>>
  /\ InitRest

NextPcm == ConvertSample

SpecPcm == InitPcm /\ [][NextPcm]_vars

\* encode and decode on their own, over ByteSeqs.
InitBase64 ==
  /\ variant = "v2"
  /\ apiKey = TRUE
  /\ codecIn \in ByteSeqs
  /\ codecOut = <<>>
  /\ InitRest

NextBase64 == RoundTripBytes

SpecBase64 == InitBase64 /\ [][NextBase64]_vars

\* ------------------------------------------------------------------ claims
\* A message whose interrupted branch ran: the handler reached its end.
InterruptedHandled(l) == l.op = "message" /\ l.m.interrupted /\ ~l.thrown

\* C1: chunks scheduled with no interruption, teardown or underrun clamp
\* between them start back to back, in arrival order:
\* start_j = start_i + d_i + ... + d_(j-1), also when their handlers were
\* suspended in decoding at the same time.
C1_Contiguous ==
  \A i, j \in DOMAIN sched :
    (i < j /\ sched[i].epoch = sched[j].epoch) =>
      /\ sched[j].start = sched[i].start + SumDur(sched, i, j)
      /\ sched[i].seq < sched[j].seq

\* Two chunks of different durations, scheduled back to back, the second one
\* received while the handler of the first was still suspended in decoding.
C1_Witness ==
  /\ Len(sched) >= 2
  /\ sched[1].epoch = sched[2].epoch
  /\ sched[1].dur # sched[2].dur
  /\ sched[1].waiting = 2

\* C2 as stated: no step that handles an audio_output or interrupted event
\* lowers the cursor.
C2_Original ==
  [][last'.op \in {"decode", "message"} => nextStartTimeRef' >= nextStartTimeRef]_vars

\* C2 amended: a step that handles a message never lowers the cursor, except
\* that a handled interrupted event sets it to 0.
C2_Amended ==
  [][last'.op \in {"decode", "message"} =>
       IF InterruptedHandled(last')
       THEN nextStartTimeRef' = 0
       ELSE nextStartTimeRef' >= nextStartTimeRef]_vars

\* An interrupted event handled on its own, after a handle was force-stopped:
\* the cursor is back at 0.
C2_Witness ==
  /\ InterruptedHandled(last)
  /\ last.m.audio.kind = "none"
  /\ last.flushed > 0
  /\ nextStartTimeRef = 0

C4_FlushEmpties == InterruptedHandled(last) => sourcesRef = {}

\* An interrupted event that force-stopped two handles at once.
C4_Witness == InterruptedHandled(last) /\ last.flushed >= 2 /\ sourcesRef = {}

\* The tool results handed to sendToolResponse so far: those sent and those
\* still queued on a session promise.
IsSend(e) == e.type = "send"

RECURSIVE QueuedFrom(_)
QueuedFrom(k) ==
  IF k > MaxStarts THEN <<>>
  ELSE LET q == SelectSeq(thens[k], IsSend)
       IN [i \in 1..Len(q) |-> q[i].frame] \o QueuedFrom(k + 1)

Results == outbox \o QueuedFrom(1)

ResultsFor(id) == {i \in DOMAIN Results : Results[i].id = id}

\* The results that report success: the default of v2, a handler's return
\* value and the farewell of stop_assistant.
SuccessResults ==
  {"Success", "handler result", "V1 signing off. Neural link terminated."}

\* C5 as stated: every tool call dispatched on an open transport has exactly
\* one tool result with its id, whether its handler returned or threw.
C5_ExactlyOneResult ==
  \A id \in dispatched : Cardinality(ResultsFor(id)) = 1

\* C6 as stated: the result of a call whose name is outside the vocabulary is
\* not one of the success results.
C6_UnknownFlagged ==
  \A i \in DOMAIN Results :
    Results[i].name \notin ToolVocabulary => Results[i].result \notin SuccessResults

\* A text with nothing but white space in it.
Blank(t) == \A i \in DOMAIN t : IsSpace(t[i])

\* The accumulators as the turn_complete branch of message m finds them: the
\* fragment of the same message has been appended.
UserAtTurn(m) ==
  currentInputTranscription
    \o (IF m.inT.present /\ ~m.outT.present THEN m.inT.text ELSE <<>>)

AssistantAtTurn(m) ==
  currentOutputTranscription \o (IF m.outT.present THEN m.outT.text ELSE <<>>)

\* C7: a turn_complete handled with both accumulators empty or blank leaves
\* the log as it is; handled with only the user accumulator non-blank it
\* appends one record, tagged user (the log being below its cap).
C7_TurnRecords ==
  [][(last'.op = "message" /\ last'.m.turnComplete /\ ~last'.thrown) =>
       LET u == UserAtTurn(last'.m)
           a == AssistantAtTurn(last'.m)
       IN /\ (Blank(u) /\ Blank(a)) => transcription' = transcription
          /\ (~Blank(u) /\ Blank(a)) =>
               /\ Len(transcription') = Len(transcription) + 1
               /\ SubSeq(transcription', 1, Len(transcription)) = transcription
               /\ transcription'[Len(transcription')].type = "user"]_vars

\* A turn_complete that carried a blank user fragment and found a blank
\* assistant accumulator, after which the log holds one user record.
C7_Witness ==
  /\ last.op = "message" /\ last.m.turnComplete
  /\ last.m.inT = Text(<<" ">>)
  /\ Len(transcription) = 1
  /\ transcription[1] = [type |-> "user", text |-> <<"a">>]

\* The controller is idle: no startSession call is between two of its awaits
\* and no transport is connecting, open or closing.
Idle ==
  \A k \in Sessions : pc[k] \in {"none", "done"} /\ transport[k] \in {"none", "closed"}

\* C8 as stated: a startSession call made while the controller is not idle
\* changes nothing: no device is acquired, no invocation begins, no transport
\* is opened and no ref is overwritten.
C8_StartNoOp ==
  [][(last'.op = "start" /\ ~Idle) =>
       /\ acquired' = acquired
       /\ pc' = pc
       /\ transport' = transport
       /\ UNCHANGED refVars]_vars

\* The ref through which stopSession reaches resource r.
Held(r) ==
  CASE r = "transport" -> IF variant = "v2" THEN sessionPromiseRef ELSE sessionRef
    [] r = "stream" -> streamRef
    [] r = "inCtx" -> inputAudioContextRef
    [] r = "outCtx" -> audioContextRef

IsClose(e) == e.type = "close"

\* How many times resource r of session k has been released: the close()/stop()
\* calls made, and for the transport the close still queued on its promise.
Released(cc, th, k, r) ==
  cc[k][r] + (IF r = "transport" THEN Len(SelectSeq(th[k], IsClose)) ELSE 0)

\* Everything but the record of the last step.
progVars ==
  <<variant, apiKey, mounted, uiVars, sessVars, refVars, playVars, now, textVars,
    toolVars, capVars, codecVars>>

\* C9: a stopSession call from the button releases every resource the refs
\* hold exactly once and clears the refs; a second call right after it
\* releases nothing and leaves the state as the first call left it.
C9_StopIdempotent ==
  [][last'.op = "stop" =>
       /\ \A r \in Resources :
            Held(r) # Null =>
              /\ Released(closeCalls', thens', Held(r), r) = 1
              /\ Held(r)' = Null
       /\ last.op = "stop" => UNCHANGED progVars]_vars

\* Two stopSession calls in a row on an established session: each of its four
\* resources has been closed once.
C9_Witness ==
  /\ last.op = "stop" /\ last.prev = "stop"
  /\ \E k \in Sessions : \A r \in Resources : closeCalls[k][r] = 1

\* The steps that run stopSession.
TeardownOps == {"stop", "error", "timer", "unmount"}

\* C10: whichever of the button, onerror, the stop_assistant timer and unmount
\* run stopSession, and in whatever order, no resource of a session is ever
\* released more than once, and each run releases every resource the refs hold
\* exactly once and clears the refs.
C10_ReleasedOnce ==
  [][/\ \A k \in Sessions, r \in Resources : Released(closeCalls', thens', k, r) <= 1
     /\ (last'.op \in TeardownOps /\ (last'.op = "unmount" => variant = "v2")) =>
          \A r \in Resources :
            Held(r) # Null =>
              /\ Released(closeCalls', thens', Held(r), r) = 1
              /\ Held(r)' = Null]_vars

\* Two different triggers ran stopSession one right after the other on an
\* established session, a third is still armed or has run, and each of the four
\* resources has been closed once.
C10_Witness ==
  /\ last.op \in TeardownOps /\ last.prev \in TeardownOps /\ last.op # last.prev
  /\ variant = "v2"
  /\ nCalls > 0
  /\ \E k \in Sessions : \A r \in Resources : closeCalls[k][r] = 1

\* C11 as stated: once stopSession has run and no new startSession can follow
\* (the component of v2 was unmounted, and its cleanup called stopSession),
\* the session is not active (listening flag on and a capture callback
\* running), and every resource a startSession call acquired has been released.
C11_StopIsFinal ==
  (variant = "v2" /\ ~mounted) =>
    /\ ~(isListening /\ \E k \in Sessions : CaptureRuns(k))
    /\ \A k \in Sessions : \A r \in acquired[k] : Released(closeCalls, thens, k, r) >= 1

\* The chunks handed to sessionPromise.then so far that were not discarded:
\* those uploaded and those still queued on a session promise.
IsChunk(e) == e.type = "chunk"

RECURSIVE QueuedChunks(_)
QueuedChunks(k) ==
  IF k > MaxStarts THEN <<>>
  ELSE LET q == SelectSeq(thens[k], IsChunk)
       IN [i \in 1..Len(q) |-> q[i].frame] \o QueuedChunks(k + 1)

\* C12: every chunk uploaded, and every chunk whose upload is still queued,
\* was handed over after its transport had reported open: onopen had run and
\* the transport was no longer connecting.
C12_NoUploadBeforeOpen ==
  LET chunks == uplink \o QueuedChunks(1) IN
  \A i \in DOMAIN chunks :
    /\ chunks[i].sentIn \notin {"none", "connecting"}
    /\ promise[chunks[i].k] \in {"opened", "resolved"}

\* Two chunks were uploaded: one handed over between onopen and the resolution
\* of the session promise, one after it.
C12_Witness ==
  /\ Len(uplink) >= 2
  /\ uplink[1].queued /\ ~uplink[2].queued
  /\ uplink[1].sentIn = "open"

\* C13 as stated: capture produces a chunk only while the transport of its
\* session is open, that is, while the session is active.
C13_NoCaptureAfterActive == last.op = "audio" => last.state = "open"

\* C14 as stated: no chunk waits for its upload: none is queued on a session
\* promise, and none that was uploaded had been queued.
C14_NothingQueued ==
  /\ QueuedChunks(1) = <<>>
  /\ \A i \in DOMAIN uplink : ~uplink[i].queued

\* C20: the chunks of a session are uploaded, and wait for their upload, in
\* the order in which capture produced them.
C20_UploadOrder ==
  LET chunks == uplink \o QueuedChunks(1) IN
  \A i, j \in DOMAIN chunks :
    (i < j /\ chunks[i].k = chunks[j].k) => chunks[i].n < chunks[j].n

\* Two chunks produced before the session promise resolved were uploaded when
\* it did.
C20_Witness ==
  /\ Len(uplink) >= 2
  /\ uplink[1].queued /\ uplink[2].queued
  /\ uplink[1].n < uplink[2].n

\* C15 as stated: after a close signal received on an open transport the
\* microphone stream and both audio contexts of that session have been
\* released, the refs are cleared and the active set is empty.
C15_CloseTearsDown ==
  (last.op = "close" /\ last.was = "open") =>
    /\ \A r \in {"stream", "inCtx", "outCtx"} : closeCalls[last.k][r] >= 1
    /\ \A r \in Resources : Held(r) = Null
    /\ sourcesRef = {}

\* C16 as stated: after getUserMedia was rejected, and after a transport
\* error, the session's transport is neither connecting nor open and every
\* device and stream its startSession call acquired has been released.
C16_FailureReleases ==
  last.op \in {"gumRejected", "error"} =>
    /\ transport[last.k] \notin {"connecting", "open"}
    /\ \A r \in acquired[last.k] \ {"transport"} : closeCalls[last.k][r] >= 1

\* A value of the error state that is a non-empty message.
IsMessage(e) == ~e.isNull /\ e.text # ""

\* The error state holds what the catch of startSession or onerror reported.
FailureReported == ~error.isNull /\ error.text \in {BootstrapError, TransportError}

\* C17 as stated: the catch of startSession and onerror leave a non-empty
\* error message, and what they reported stays in place through every step
\* that is not the beginning of a startSession call.
C17_Original ==
  [][/\ last'.op \in {"gumRejected", "error"} => (IsMessage(error') /\ FailureReported')
     /\ (FailureReported /\ last'.op \notin {"start", "gumRejected", "error"}) =>
          error' = error]_vars

\* C17 amended: the catch of startSession and onerror leave a non-empty error
\* message, and what they reported stays in place through every step other
\* than the beginning of a startSession call and the user's own clearing of it
\* (the key dialogue of v2, the Dismiss button of v3).
C17_Amended ==
  [][/\ last'.op \in {"gumRejected", "error"} => (IsMessage(error') /\ FailureReported')
     /\ (FailureReported
         /\ last'.op \notin {"start", "gumRejected", "error", "linkKey", "dismiss"}) =>
          error' = error]_vars

\* After a transport error the stop_assistant timer or the unmount cleanup ran
\* stopSession, and the message is still there; so it is after a rejected
\* getUserMedia followed by an unmount.
C17_Witness ==
  /\ last.op \in {"timer", "unmount"}
  /\ last.prev \in {"error", "gumRejected"}
  /\ variant = "v2"
  /\ IsMessage(error) /\ FailureReported

\* C18 as stated: a sample of [-1, 1] converted to Int16 and divided by 32768
\* is within 1/32768 of the sample: with the sample n / GridSteps and the
\* Int16 q, |q / 32768 - n / GridSteps| <= 1 / 32768.
C18_RoundTripClose ==
  last.op = "pcm" => Abs(codecOut.pcm * GridSteps - codecIn * PcmScale) <= GridSteps

\* C19: decode(encode(b)) = b for every byte sequence b.
C19_RoundTripExact == last.op = "base64" => codecOut.bytes = codecIn

\* A sequence of four bytes, the high byte values among them, went through a
\* text of eight characters that ends in padding and came back as it was.
C19_Witness ==
  /\ last.op = "base64"
  /\ Len(codecIn) = 4 /\ codecIn[1] = 255 /\ codecIn[4] = 128
  /\ Len(codecOut.text) = 8 /\ codecOut.text[8] = Pad
  /\ codecOut.bytes = codecIn

\* An interrupted event was handled after handle i was scheduled and before
\* handle j was.
FlushBetween(i, j) == Min(i, j) <= sched[Max(i, j)].flushLen

\* C21: of two chunks of a session with no interrupted event handled between
\* their scheduling, the one that arrived first has the smaller or equal start
\* time, whichever way the handlers suspended in decoding interleave.
C21_ArrivalOrder ==
  \A i, j \in DOMAIN sched :
    (sched[i].seq < sched[j].seq /\ ~FlushBetween(i, j)) =>
      sched[i].start <= sched[j].start

\* Two chunks whose handlers were suspended together while an interrupted
\* event was handled, scheduled afterwards in arrival order at increasing
\* start times.
C21_Witness ==
  /\ Len(sched) >= 2
  /\ lastFlush = 0
  /\ sched[1].waiting = 2
  /\ sched[1].seq < sched[2].seq
  /\ sched[1].start < sched[2].start

\* A step in which a suspended handler resumed and scheduled its chunk.
Scheduled == Len(sched') = Len(sched) + 1 /\ pending # <<>>

\* C22 as stated: no chunk is scheduled after an interrupted event that was
\* handled after the chunk had arrived, also when its handler was suspended in
\* decoding at the time.
C22_NoStaleAudio == [][Scheduled => ~Head(pending).stale]_vars

\* C23 as stated: the first chunk scheduled after an interrupted event starts
\* at the current time of the output device while the chunk is handled: not
\* before the time the device had when the chunk's handler began, and not
\* after the time it has when the chunk is scheduled.
C23_RestartAtNow ==
  [][(Scheduled /\ lastFlush = Len(sched)) =>
       LET h == Head(pending)
           start == sched'[Len(sched')].start
       IN h.at <= start /\ start <= now[h.ctx]]_vars

\* C24: the active set holds exactly the handles that were scheduled and have
\* neither ended nor been force-stopped.
C24_ActiveSetExact ==
  sourcesRef = {i \in DOMAIN sched : sched[i].state = "scheduled"}

\* One handle has ended and left the set while a later one is still in it.
C24_Witness ==
  /\ Len(sched) >= 2
  /\ sched[1].state = "ended" /\ sched[2].state = "scheduled"
  /\ sourcesRef = {2}

\* A turn_complete event whose branch ran in v2.
TurnHandled(l) == variant = "v2" /\ l.op = "message" /\ l.m.turnComplete /\ ~l.thrown

\* C25: a turn_complete handled with both accumulators holding more than
\* white space appends exactly two records, the user's and then the
\* assistant's; what is before them is the old log, cut at the front where the
\* cap requires it.
C25_UserThenAssistant ==
  [][TurnHandled(last') =>
       LET u == UserAtTurn(last'.m)
           a == AssistantAtTurn(last'.m)
           n == Len(transcription')
       IN (~Blank(u) /\ ~Blank(a)) =>
            /\ n >= 2
            /\ transcription'[n - 1] = [type |-> "user", text |-> Trim(u)]
            /\ transcription'[n] = [type |-> "v1", text |-> Trim(a)]
            /\ SubSeq(transcription', 1, n - 2) = LastN(transcription, TranscriptCap - 2)]_vars

\* A turn with both texts was finalized on a full log: the log is still at its
\* cap and ends in the user's record followed by the assistant's.
C25_Witness ==
  /\ TurnHandled(last) /\ last.m.outT.present
  /\ Len(transcription) = TranscriptCap
  /\ transcription[TranscriptCap - 1].type = "user"
  /\ transcription[TranscriptCap].type = "v1"
  /\ transcription[1].type = "v1" /\ transcription[2].type = "v1"
  /\ transcription[3].type = "user"

\* C26: right after a turn_complete has been handled both accumulators are
\* empty, whether a record was emitted or not.
C26_AccumulatorsCleared ==
  TurnHandled(last) =>
    currentInputTranscription = <<>> /\ currentOutputTranscription = <<>>

\* A turn_complete that came with a blank fragment of the user: the
\* accumulator was not empty, no record was emitted, and both accumulators are
\* empty.
C26_Witness ==
  /\ TurnHandled(last)
  /\ last.m.inT = Text(<<" ">>)
  /\ transcription = <<>>
  /\ currentInputTranscription = <<>> /\ currentOutputTranscription = <<>>

\* C27 as stated: the log never holds more than TranscriptCap entries, and
\* every step leaves in it the last TranscriptCap entries of the old log
\* followed by the records the step appended (none, one or two).
C27_CappedLog ==
  [][/\ Len(transcription') <= TranscriptCap
     /\ \E n \in 0..2 :
          transcription' =
            LastN(transcription \o LastN(transcription', n), TranscriptCap)]_vars

Throws(c) == c.throws /\ c.name \in (IF variant = "v2" THEN HandledV2 ELSE HandledV3)

\* C29 as stated: a message with a tool call whose handler throws leaves the
\* session as it was (transport open, listening flag, status, error, active
\* set, cursor, accumulators), the handler of the message runs to its end, and
\* every call of the message, the ones after the failing call included, gets
\* exactly one result: a failure description for a call that threw, the
\* handler's value for one that returned.
C29_ThrowContained ==
  [][(last'.op = "message" /\ \E i \in DOMAIN last'.m.calls : Throws(last'.m.calls[i])) =>
       LET calls == last'.m.calls IN
       /\ ~last'.thrown
       /\ UNCHANGED <<transport, isListening, status, error, pc, refVars, closeCalls>>
       /\ UNCHANGED <<sourcesRef, sched, nextStartTimeRef, textVars, transcription>>
       /\ nCalls' = nCalls + Len(calls)
       /\ \A i \in DOMAIN calls :
            \E j \in DOMAIN Results' :
              /\ Results'[j].id = nCalls + i
              /\ Results'[j].name = calls[i].name
              /\ Results'[j].result \in SuccessResults <=> ~Throws(calls[i])
              /\ \A j2 \in DOMAIN Results' : Results'[j2].id = nCalls + i => j2 = j]_vars

\* A message asks for stop_assistant.
AsksStop(m) == \E i \in DOMAIN m.calls : m.calls[i].name = "stop_assistant"

IsStopResult(e) == e.type = "send" /\ e.frame.name = "stop_assistant"

\* C30: a stop_assistant call dispatched in an active session of v2 releases
\* nothing and leaves the session active; it arms one timer, and its result is
\* sent at once or queued on the session promise with no close ahead of it.
\* The timer, when it fires, runs the teardown, and the close it queues goes
\* behind the result.
C30_StopDeferred ==
  [][/\ (variant = "v2" /\ last'.op = "message" /\ AsksStop(last'.m)
         /\ isListening /\ sessionPromiseRef = last'.k) =>
          LET k == last'.k IN
          /\ isListening' /\ transport'[k] = "open" /\ sessionPromiseRef' = k
          /\ UNCHANGED <<closeCalls, streamRef, audioContextRef, inputAudioContextRef>>
          /\ timers' = timers + 1
          /\ IF promise[k] = "resolved"
             THEN /\ Len(outbox') = Len(outbox) + 1
                  /\ outbox'[Len(outbox')].name = "stop_assistant"
             ELSE /\ Len(thens'[k]) = Len(thens[k]) + 1
                  /\ IsStopResult(thens'[k][Len(thens'[k])])
                  /\ SelectSeq(thens'[k], IsClose) = <<>>
     /\ (variant = "v2" /\ last'.op = "timer") =>
          /\ ~isListening'
          /\ \A r \in Resources :
               Held(r) # Null =>
                 /\ Released(closeCalls', thens', Held(r), r) = 1
                 /\ Held(r)' = Null
          /\ \A k \in Sessions :
               \/ thens'[k] = thens[k]
               \/ thens'[k] = Append(thens[k], [type |-> "close"])
     /\ (variant = "v2" /\ last'.op = "resolved") =>
          LET k == last'.k
              q == thens[k]
          IN \A i \in DOMAIN q :
               (IsStopResult(q[i]) /\ transport[k] = "open"
                /\ \A j \in 1..(i - 1) : ~IsClose(q[j])) =>
                 \E n \in DOMAIN outbox' : outbox'[n] = q[i].frame]_vars

\* The result of a stop_assistant call waited on the session promise, went
\* out when the promise resolved, and the timer then closed the transport.
C30_Witness ==
  /\ variant = "v2"
  /\ last.op = "timer" /\ last.prev = "resolved"
  /\ \E i \in DOMAIN outbox : outbox[i].name = "stop_assistant"
  /\ closeCalls[1]["transport"] = 1
  /\ transport[1] = "closing"

\* ------------------------------------------------------------ C31
\* A session whose transport has not opened has received no message, so no
\* stop_assistant call of its own has armed a timer.
NeverOpened(k) == pc[k] # "none" /\ transport[k] \in {"none", "connecting"}

\* The host starts a session of v2 only when the previous one has been stopped:
\* no startSession call is in flight and stopSession has cleared every ref.
StartAfterStop ==
  /\ \A j \in Sessions : pc[j] \in {"none", "done"}
  /\ \A r \in Resources : Held(r) = Null
  /\ StartSessionV2(MaxStarts)

\* Sessions of v2 one after the other, each started after the one before it
\* was stopped, with the stop_assistant timer running across them.
NextRestart ==
  \/ StartAfterStop
  \/ \E k \in Sessions : ResumeDone(k)
  \/ \E k \in Sessions : GumResolved(k)
  \/ \E k \in Sessions : GumRejected(k)
  \/ \E k \in Sessions : TransportOpen(k)
  \/ \E k \in Sessions : ConnectResolved(k)
  \/ \E k \in Sessions, m \in StopMsgs : OnMessageV2(k, m)
  \/ StopClick
  \/ Render
  \/ TimerFire

SpecRestart == Init /\ [][NextRestart]_vars

\* Session j began before session k and its transport has been closed by
\* stopSession, so it receives no further message.
StoppedBefore(j, k) == j < k /\ closeCalls[j]["transport"] >= 1

\* C31: when the timer armed by a stop_assistant call fires, a session that
\* was started after the earlier one was stopped, and has not received any
\* message yet, is left alone:
\* nothing of it is closed and no close is queued on its promise.
C31_TimerSparesNextSession ==
  [][last'.op = "timer" =>
       \A k \in Sessions :
         (NeverOpened(k) /\ \A j \in Sessions \ {k} : StoppedBefore(j, k)) =>
           /\ closeCalls'[k] = closeCalls[k]
           /\ thens'[k] = thens[k]]_vars

\* ------------------------------------------------------------ C32
\* The release steps one stopSession call performs, in the order of its
\* statements: the transport close (handed to the session promise in v2, called
\* in v3), the microphone tracks, the input context, the output context, the
\* stop() of every playback handle, and in v2 the cursor (lines 369-389,
\* 880-885).  Neither version disconnects the capture node or clears the
\* transcript accumulators.
stopSessionSteps ==
  (IF Held("transport") # Null THEN <<"transport">> ELSE <<>>)
  \o (IF streamRef # Null THEN <<"stream">> ELSE <<>>)
  \o (IF inputAudioContextRef # Null THEN <<"inCtx">> ELSE <<>>)
  \o (IF audioContextRef # Null THEN <<"outCtx">> ELSE <<>>)
  \o <<"handles">>
  \o (IF variant = "v2" THEN <<"cursor">> ELSE <<>>)

\* A step runs stopSession: the button, onerror, the timer, and in v2 unmount.
RunsStopSession(op) ==
  op \in TeardownOps /\ ~(variant = "v3" /\ op = "unmount")

\* C32: the release steps a stopSession call performs come in the stated
\* order: stop capture, close transport, force-stop the playback handles,
\* release the output device, release the input device and the microphone,
\* reset the accumulators and the cursor.
C32_TeardownOrder ==
  [][RunsStopSession(last'.op) =>
       LET steps == stopSessionSteps
           rank(step) == CASE step = "capture" -> 1
                           [] step = "transport" -> 2
                           [] step = "handles" -> 3
                           [] step = "outCtx" -> 4
                           [] step \in {"inCtx", "stream"} -> 5
                           [] step \in {"accumulators", "cursor"} -> 6
       IN \A i, j \in DOMAIN steps :
            i < j => rank(steps[i]) <= rank(steps[j])]_vars

\* ------------------------------------------------------------ C33, C34, C35
\* What the endpoint sends in a session that is stopped while it speaks: a
\* chunk of audio, a fragment of the user's transcript, the end of a turn, and
\* messages whose audio payload cannot be decoded and that carry another part.
HaltMsgs ==
  {Msg(Pcm(1), NoText, NoText, FALSE, <<>>, FALSE),
   Msg(NoAudio, NoText, Text(<<"a">>), FALSE, <<>>, FALSE),
   Msg(NoAudio, NoText, NoText, TRUE, <<>>, FALSE),
   Msg(BadAudio, NoText, Text(<<"a">>), FALSE, <<>>, FALSE),
   Msg(BadAudio, NoText, NoText, FALSE, <<[name |-> "get_current_time", throws |-> FALSE]>>,
       FALSE),
   Msg(BadAudio, NoText, NoText, FALSE, <<>>, TRUE)}

\* One session of v2 or v3 that receives audio, transcripts and undecodable
\* payloads, and is stopped from the button.
NextHalt ==
  \/ StartSessionV2(1)
  \/ StartSessionV3(1)
  \/ \E k \in Sessions : ResumeDone(k)
  \/ \E k \in Sessions : GumResolved(k)
  \/ \E k \in Sessions : TransportOpen(k)
  \/ \E k \in Sessions : ConnectResolved(k)
  \/ \E k \in Sessions, m \in HaltMsgs : OnMessageV2(k, m)
  \/ \E k \in Sessions, m \in HaltMsgs : OnMessageV3(k, m)
  \/ ResumeV2
  \/ ResumeV3
  \/ StopClick
  \/ Render

SpecHalt == Init /\ [][NextHalt]_vars

\* C33: when stopSession has run in v2, both transcript accumulators are
\* empty, so that no text of the stopped session is left for a later turn.
C33_AccumulatorsCleared ==
  (variant = "v2" /\ RunsStopSession(last.op)) =>
    /\ currentInputTranscription = <<>>
    /\ currentOutputTranscription = <<>>

\* stopSession has closed the output context of some session.
TornDown == \E k \in Sessions : closeCalls[k]["outCtx"] >= 1

\* C34: once stopSession has run, the active playback set is empty and stays
\* empty, and nothing more is scheduled: neither by a message that arrives
\* afterwards nor by a handler that was waiting for its decoded audio.
C34_NoPlaybackAfterStop ==
  [][(TornDown \/ RunsStopSession(last'.op)) =>
       /\ sourcesRef' = {}
       /\ Len(sched') = Len(sched)]_vars

\* C35: a message whose audio payload cannot be decoded schedules nothing and
\* leaves the session active, and its other parts are processed: the
\* transcript fragment is taken up, the tool calls are dispatched, the end of
\* the turn clears the accumulators and an interrupted flag flushes playback.
C35_BadAudioIsolated ==
  [][(last'.op = "message" /\ last'.m.audio.kind = "bad") =>
       LET m == last'.m
       IN /\ Len(sched') = Len(sched) /\ pending' = pending /\ sourcesRef' \subseteq sourcesRef
          /\ isListening' = isListening /\ status' = status /\ transport' = transport
          /\ m.inT.present =>
               IF variant = "v2"
               THEN currentInputTranscription' = Concat(currentInputTranscription, m.inT.text)
               ELSE /\ transcription' # <<>>
                    /\ transcription'[Len(transcription')] = [type |-> "user", text |-> m.inT.text]
          /\ m.outT.present =>
               IF variant = "v2"
               THEN currentOutputTranscription' = Concat(currentOutputTranscription, m.outT.text)
               ELSE /\ transcription' # <<>>
                    /\ transcription'[Len(transcription')] = [type |-> "v1", text |-> m.outT.text]
          /\ nCalls' = nCalls + Len(m.calls)
          /\ (m.turnComplete /\ variant = "v2") =>
               currentInputTranscription' = <<>> /\ currentOutputTranscription' = <<>>
          /\ m.interrupted => sourcesRef' = {} /\ nextStartTimeRef' = 0]_vars

\* ------------------------------------------------------------ C36
\* The lifecycle state the interface shows: Connecting while the status label
\* has the connecting value (lines 402, 790), Active when the label is the
\* synchronized one and the listening flag is set (lines 423-424, 808-809),
\* Idle otherwise.  Closing and Error are passed through within one handler.
Phase ==
  IF status = Connecting THEN "Connecting"
  ELSE IF status = Synchronized /\ isListening THEN "Active"
  ELSE "Idle"

\* C36: the lifecycle state of the mounted component changes only from Idle
\* to Connecting, from Connecting to Active, and from Connecting or Active
\* back to Idle (through Closing or Error); Active is entered only from
\* Connecting.
C36_LifecycleTransitions ==
  [][(mounted' /\ Phase' # Phase) =>
       <<Phase, Phase'>> \in {<<"Idle", "Connecting">>, <<"Connecting", "Active">>,
                              <<"Active", "Idle">>, <<"Connecting", "Idle">>}]_vars

\* ------------------------------------------------------------ C37
\* One startSession call with every trigger of stopSession, where what the
\* call waits for does arrive: the resume() promises resolve, getUserMedia
\* resolves or rejects, and a connecting transport opens, fails or closes.
SpecConnect ==
  /\ Init
  /\ [][NextTeardown]_vars
  /\ WF_vars(\E k \in Sessions : ResumeDone(k))
  /\ WF_vars(\E k \in Sessions : GumResolved(k) \/ GumRejected(k))
  /\ WF_vars(\E k \in Sessions : TransportOpen(k) \/ OnClose(k)
                                   \/ \E b \in BOOLEAN : OnError(k, b))

\* The startSession call of session k, or the connection it asked for, has
\* not come to a result yet.
Starting(k) == pc[k] \in {"resume", "gum"} \/ transport[k] = "connecting"

C38_UnmountTearsDown ==
  [][(variant = "v2" /\ last'.op = "unmount" /\ Phase \in {"Connecting", "Active"}) =>
       /\ \A k \in Sessions : \A r \in acquired[k] :
            Released(closeCalls', thens', k, r) >= 1
       /\ sourcesRef' = {}]_vars

====
